---- MODULE Spec2Model ----
(***************************************************************************)
(* Model of main.py: a FastAPI application with one route, GET "/",       *)
(* answered by read_root with 204 No Content, served by uvicorn on        *)
(* 0.0.0.0:8000 when the file is run as the main program.                 *)
(*                                                                         *)
(* The module body of main.py runs top to bottom (create the app, register *)
(* the route, start uvicorn); uvicorn then binds the listener and serves   *)
(* requests, each one an independent task.  read_root is a plain "def", so *)
(* FastAPI runs it on a worker thread taken from a bounded pool.           *)
(***************************************************************************)
EXTENDS Naturals, Sequences, FiniteSets

VARIABLES
    phase,          \* where the process is in its life
    is_main,        \* __name__ == "__main__"
    environ,        \* the process environment (input)
    argv,           \* the command line after the program name (input)
    routes,         \* app.router.routes, in registration order
    openapi_schema, \* app.openapi_schema, filled by the /openapi.json endpoint
    listener,       \* the bound socket, or NoListener
    bind_attempts,  \* how many times the listener bind was tried
    bind_failed,    \* the bind raised OSError
    should_exit,    \* a termination signal was received
    exit_code,      \* the exit status once phase = "exited"
    connections,    \* one record per accepted request, in accept order
    waiters         \* requests waiting for a worker thread, first come first served

vars == <<phase, is_main, environ, argv, routes, openapi_schema, listener,
          bind_attempts, bind_failed, should_exit, exit_code, connections, waiters>>

(* ------------------------------ bounds -------------------------------- *)

\* requests accepted in one run
MaxRequests == 2

\* worker threads that may run read_root at once
ThreadLimit == 1

(* ----------------------------- constants ------------------------------ *)

HTTP_204_NO_CONTENT == 204

HOST == "0.0.0.0"

PORT == 8000

NoListener == [host |-> "", port |-> 0]

NoResponse == [status_code |-> 0, body |-> <<>>]

NoExit == "none"

(* ------------------------------ inputs -------------------------------- *)

Methods == {"GET", "HEAD", "POST"}

Paths == {"/", "/nonexistent", "/openapi.json"}

Queries == {"", "q=1"}

Headers == {{}, {"x-test"}}

Bodies == {<<>>, <<"payload">>}

Environs == {{}, {"HOST=127.0.0.1", "PORT=9000"}}

Argvs == {<<>>, <<"--host", "127.0.0.1", "--port", "9000">>}

IsBare(rq) == rq.query = "" /\ rq.headers = {} /\ rq.body = <<>>

IsGetRoot(rq) == rq.method = "GET" /\ rq.path = "/"

IsLoaded(rq) == rq.query # "" /\ rq.headers # {} /\ rq.body # <<>>

\* GET "/" is tried bare and with a query string, a header and a body; the
\* other method/path pairs are tried bare.
Requests ==
    {rq \in [method : Methods, path : Paths, query : Queries,
             headers : Headers, body : Bodies] :
        /\ IsBare(rq) \/ (IsGetRoot(rq) /\ IsLoaded(rq))
        /\ rq.method = "HEAD" => rq.path = "/"}

(* ---------------------- the application (lines 3-7) ------------------- *)

\* app = FastAPI(): with no arguments the constructor registers the schema and
\* documentation routes (openapi_url, docs_url, swagger_ui_oauth2_redirect_url,
\* redoc_url at their defaults), each for GET and HEAD.
DefaultRoutes ==
    << [path |-> "/openapi.json",         methods |-> {"GET", "HEAD"}, endpoint |-> "openapi"],
       [path |-> "/docs",                 methods |-> {"GET", "HEAD"}, endpoint |-> "swagger_ui_html"],
       [path |-> "/docs/oauth2-redirect", methods |-> {"GET", "HEAD"}, endpoint |-> "swagger_ui_redirect"],
       [path |-> "/redoc",                methods |-> {"GET", "HEAD"}, endpoint |-> "redoc_html"] >>

ReadRootRoute_wrong_path ==
    [path |-> "/nonexistent", methods |-> {"GET"}, endpoint |-> "read_root"]

ReadRootRoute_with_head ==
    [path |-> "/", methods |-> {"GET", "HEAD"}, endpoint |-> "read_root"]

\* @app.get("/") def read_root: an APIRoute for exactly the method GET
ReadRootRoute ==
    [path |-> "/", methods |-> {"GET"}, endpoint |-> "read_root"]

read_root_default_status ==
    [status_code |-> 200, body |-> <<>>]

read_root_counting ==
    [status_code |-> IF \E i \in DOMAIN connections : connections[i].state = "responded"
                     THEN 200 ELSE HTTP_204_NO_CONTENT,
     body |-> <<>>]

\* return Response(status_code=status.HTTP_204_NO_CONTENT): no content given,
\* so the body is empty
read_root ==
    [status_code |-> HTTP_204_NO_CONTENT, body |-> <<>>]

(* -------------------------- routing (framework) ----------------------- *)

PathMatches(rq) == {k \in DOMAIN routes : routes[k].path = rq.path}

FullMatches(rq) == {k \in PathMatches(rq) : rq.method \in routes[k].methods}

First(S) == CHOOSE k \in S : \A j \in S : k <= j

\* The router takes the first route whose path and method both match; a route
\* whose path alone matches answers "method not allowed"; otherwise "not found".
Endpoint(rq) ==
    IF FullMatches(rq) # {} THEN routes[First(FullMatches(rq))].endpoint
    ELSE IF PathMatches(rq) # {} THEN "method_not_allowed"
    ELSE "not_found"

\* What the framework's own endpoints answer.
FrameworkResponse(ep, rq) ==
    IF ep = "not_found"
    THEN [status_code |-> 404, body |-> <<"{\"detail\":\"Not Found\"}">>]
    ELSE IF ep = "method_not_allowed"
    THEN [status_code |-> 405, body |-> <<"{\"detail\":\"Method Not Allowed\"}">>]
    ELSE [status_code |-> 200,
          body |-> IF rq.method = "HEAD" THEN <<>> ELSE <<ep>>]

(* ------------------------ process start-up ---------------------------- *)

Init ==
    /\ phase = "start"
    /\ is_main \in BOOLEAN
    /\ environ \in Environs
    /\ argv \in Argvs
    /\ routes = <<>>
    /\ openapi_schema = "None"
    /\ listener = NoListener
    /\ bind_attempts = 0
    /\ bind_failed = FALSE
    /\ should_exit = FALSE
    /\ exit_code = NoExit
    /\ connections = <<>>
    /\ waiters = <<>>

\* line 3: app = FastAPI()
CreateApp ==
    /\ phase = "start"
    /\ phase' = "app_created"
    /\ routes' = DefaultRoutes
    /\ UNCHANGED <<is_main, environ, argv, openapi_schema, listener, bind_attempts,
                   bind_failed, should_exit, exit_code, connections, waiters>>

\* lines 5-7: the decorator appends the route for read_root
RegisterReadRoot ==
    /\ phase = "app_created"
    /\ phase' = "route_registered"
    /\ routes' = Append(routes, ReadRootRoute)
    /\ UNCHANGED <<is_main, environ, argv, openapi_schema, listener, bind_attempts,
                   bind_failed, should_exit, exit_code, connections, waiters>>

\* line 10: the module was imported, not run; nothing is bound by this file
ImportOnly ==
    /\ phase = "route_registered"
    /\ ~is_main
    /\ phase' = "imported"
    /\ UNCHANGED <<is_main, environ, argv, routes, openapi_schema, listener,
                   bind_attempts, bind_failed, should_exit, exit_code, connections,
                   waiters>>

\* lines 10-12: uvicorn.run(app, ...) starts the server's initialization
RunUvicorn ==
    /\ phase = "route_registered"
    /\ is_main
    /\ phase' = "server_init"
    /\ UNCHANGED <<is_main, environ, argv, routes, openapi_schema, listener,
                   bind_attempts, bind_failed, should_exit, exit_code, connections,
                   waiters>>

BindAddress_from_inputs ==
    [host |-> IF "HOST=127.0.0.1" \in environ THEN "127.0.0.1" ELSE HOST,
     port |-> IF Len(argv) > 0 THEN 9000 ELSE PORT]

\* line 12: host="0.0.0.0", port=8000, literals
BindAddress ==
    [host |-> HOST, port |-> PORT]

\* the listener is bound and the accept loop starts
BindListener ==
    /\ phase = "server_init"
    /\ phase' = "serving"
    /\ listener' = BindAddress
    /\ bind_attempts' = bind_attempts + 1
    /\ UNCHANGED <<is_main, environ, argv, routes, openapi_schema, bind_failed,
                   should_exit, exit_code, connections, waiters>>

BindFailure_retry ==
    /\ phase = "server_init"
    /\ bind_attempts < 2
    /\ bind_failed' = TRUE
    /\ bind_attempts' = bind_attempts + 1
    /\ UNCHANGED <<phase, is_main, environ, argv, routes, openapi_schema, listener,
                   should_exit, exit_code, connections, waiters>>

\* the bind raises OSError (address in use): uvicorn logs it and exits with 1
BindFailure ==
    /\ phase = "server_init"
    /\ phase' = "exited"
    /\ bind_failed' = TRUE
    /\ bind_attempts' = bind_attempts + 1
    /\ exit_code' = 1
    /\ UNCHANGED <<is_main, environ, argv, routes, openapi_schema, listener,
                   should_exit, connections, waiters>>

\* a termination signal: stop accepting, let the requests in flight finish
Signal ==
    /\ phase = "serving"
    /\ ~should_exit
    /\ should_exit' = TRUE
    /\ UNCHANGED <<phase, is_main, environ, argv, routes, openapi_schema, listener,
                   bind_attempts, bind_failed, exit_code, connections, waiters>>

Shutdown ==
    /\ phase = "serving"
    /\ should_exit
    /\ \A i \in DOMAIN connections : connections[i].state = "responded"
    /\ phase' = "exited"
    /\ listener' = NoListener
    /\ exit_code' = 0
    /\ UNCHANGED <<is_main, environ, argv, routes, openapi_schema, bind_attempts,
                   bind_failed, should_exit, connections, waiters>>

(* ------------------------- request handling --------------------------- *)

Conn(rq) ==
    [request |-> rq, state |-> "accepted", endpoint |-> "", response |-> NoResponse]

Accept_before_bind(rq) ==
    /\ phase \in {"server_init", "serving"}
    /\ ~should_exit
    /\ Len(connections) < MaxRequests
    /\ connections' = Append(connections, Conn(rq))
    /\ UNCHANGED <<phase, is_main, environ, argv, routes, openapi_schema, listener,
                   bind_attempts, bind_failed, should_exit, exit_code, waiters>>

\* the accept loop takes a request off the listener
Accept(rq) ==
    /\ phase = "serving"
    /\ ~should_exit
    /\ Len(connections) < MaxRequests
    /\ connections' = Append(connections, Conn(rq))
    /\ UNCHANGED <<phase, is_main, environ, argv, routes, openapi_schema, listener,
                   bind_attempts, bind_failed, should_exit, exit_code, waiters>>

Responded(i) == i \in DOMAIN connections /\ connections[i].state = "responded"

InFlight(i) == i \in DOMAIN connections /\ connections[i].state # "responded"

Accepted(i) ==
    /\ i \in DOMAIN connections
    /\ connections[i].state = "accepted"

\* the request matched GET "/": read_root is a plain def, so the call is
\* queued for a worker thread
RunInThreadpool(i) ==
    /\ Accepted(i)
    /\ Endpoint(connections[i].request) = "read_root"
    /\ connections' = [connections EXCEPT ![i].state = "waiting",
                                          ![i].endpoint = "read_root"]
    /\ waiters' = Append(waiters, i)
    /\ UNCHANGED <<phase, is_main, environ, argv, routes, openapi_schema, listener,
                   bind_attempts, bind_failed, should_exit, exit_code>>

\* GET or HEAD /openapi.json: the schema is generated on first use and kept
ServeOpenapi(i) ==
    /\ Accepted(i)
    /\ Endpoint(connections[i].request) = "openapi"
    /\ openapi_schema' = "generated"
    /\ connections' = [connections EXCEPT
            ![i].state = "responded",
            ![i].endpoint = "openapi",
            ![i].response = FrameworkResponse("openapi", connections[i].request)]
    /\ UNCHANGED <<phase, is_main, environ, argv, routes, listener, bind_attempts,
                   bind_failed, should_exit, exit_code, waiters>>

\* every other request is answered by the framework itself
DefaultResponse(i) ==
    /\ Accepted(i)
    /\ Endpoint(connections[i].request) \notin {"read_root", "openapi"}
    /\ connections' = [connections EXCEPT
            ![i].state = "responded",
            ![i].endpoint = Endpoint(connections[i].request),
            ![i].response = FrameworkResponse(Endpoint(connections[i].request),
                                              connections[i].request)]
    /\ UNCHANGED <<phase, is_main, environ, argv, routes, openapi_schema, listener,
                   bind_attempts, bind_failed, should_exit, exit_code, waiters>>

Running == {i \in DOMAIN connections : connections[i].state = "running"}

BusyThreads_leaked ==
    Cardinality({i \in DOMAIN connections :
                    /\ connections[i].endpoint = "read_root"
                    /\ connections[i].state \in {"running", "responded"}})

\* worker threads in use: one per call of read_root that has not returned
BusyThreads == Cardinality(Running)

\* the first waiter takes a free worker thread and read_root is called
CallReadRoot(i) ==
    /\ waiters # <<>>
    /\ i = Head(waiters)
    /\ BusyThreads < ThreadLimit
    /\ waiters' = Tail(waiters)
    /\ connections' = [connections EXCEPT ![i].state = "running"]
    /\ UNCHANGED <<phase, is_main, environ, argv, routes, openapi_schema, listener,
                   bind_attempts, bind_failed, should_exit, exit_code>>

ReadRootReturn_unsafe(i) ==
    /\ i \in Running
    /\ connections' = [connections EXCEPT
            ![i].state = "responded",
            ![i].response = IF \A j \in DOMAIN connections : j = i \/ ~InFlight(j)
                            THEN read_root
                            ELSE [status_code |-> 500, body |-> <<"Internal Server Error">>]]
    /\ UNCHANGED <<phase, is_main, environ, argv, routes, openapi_schema, listener,
                   bind_attempts, bind_failed, should_exit, exit_code, waiters>>

ReadRootReturn_caching(i) ==
    /\ i \in Running
    /\ connections' = [connections EXCEPT ![i].state = "responded",
                                          ![i].response = read_root]
    /\ openapi_schema' = "generated"
    /\ UNCHANGED <<phase, is_main, environ, argv, routes, listener,
                   bind_attempts, bind_failed, should_exit, exit_code, waiters>>

\* read_root returns its Response and the worker thread is free again
ReadRootReturn(i) ==
    /\ i \in Running
    /\ connections' = [connections EXCEPT ![i].state = "responded",
                                          ![i].response = read_root]
    /\ UNCHANGED <<phase, is_main, environ, argv, routes, openapi_schema, listener,
                   bind_attempts, bind_failed, should_exit, exit_code, waiters>>

(* --------------------------- specification ---------------------------- *)

Ids == 1..MaxRequests

Next ==
    \/ CreateApp
    \/ RegisterReadRoot
    \/ ImportOnly
    \/ RunUvicorn
    \/ BindListener
    \/ BindFailure
    \/ Signal
    \/ Shutdown
    \/ \E rq \in Requests : Accept(rq)
    \/ \E i \in Ids : RunInThreadpool(i)
    \/ \E i \in Ids : ServeOpenapi(i)
    \/ \E i \in Ids : DefaultResponse(i)
    \/ \E i \in Ids : CallReadRoot(i)
    \/ \E i \in Ids : ReadRootReturn(i)

Spec == Init /\ [][Next]_vars

\* The steps of one request's task; at most one of them is possible at a time.
RequestTask(i) ==
    \/ RunInThreadpool(i)
    \/ ServeOpenapi(i)
    \/ DefaultResponse(i)
    \/ CallReadRoot(i)
    \/ ReadRootReturn(i)

\* Each request is its own task, and the event loop and the thread pool run
\* every task that can run.
Fairness == \A i \in Ids : WF_vars(RequestTask(i))

FairSpec == Spec /\ Fairness

(* ------------------------------ claims -------------------------------- *)

ReadRootCalled(i) ==
    /\ i \in DOMAIN connections
    /\ \/ connections[i].state = "running"
       \/ connections[i].state = "responded" /\ connections[i].endpoint = "read_root"

\* C1: every answered request with method GET and path "/", whatever its
\* query string, headers and body, has status 204 and a body of length 0.
C1_GetRootIs204Empty ==
    \A i \in DOMAIN connections :
        (Responded(i) /\ IsGetRoot(connections[i].request))
            => /\ connections[i].response.status_code = 204
               /\ Len(connections[i].response.body) = 0

\* C1 witness: a GET "/" carrying a query string, a header and a body was
\* answered by read_root.
C1_Witness ==
    \E i \in DOMAIN connections :
        /\ Responded(i)
        /\ IsGetRoot(connections[i].request)
        /\ connections[i].request.query # ""
        /\ connections[i].request.headers # {}
        /\ connections[i].request.body # <<>>
        /\ connections[i].endpoint = "read_root"

\* C2: a request to "/" with a method other than GET never reaches read_root
\* and its answer is the framework's 405 "method not allowed", never 204.
C2_OtherMethodOnRoot ==
    \A i \in DOMAIN connections :
        (connections[i].request.path = "/" /\ connections[i].request.method # "GET")
            => /\ ~ReadRootCalled(i)
               /\ connections[i].state \in {"accepted", "responded"}
               /\ Responded(i) =>
                    /\ connections[i].response.status_code = 405
                    /\ connections[i].endpoint = "method_not_allowed"

\* C2 witness: a POST "/" and a HEAD "/" have both been answered.
C2_Witness ==
    /\ \E i \in DOMAIN connections :
          Responded(i) /\ connections[i].request.path = "/"
                       /\ connections[i].request.method = "POST"
    /\ \E i \in DOMAIN connections :
          Responded(i) /\ connections[i].request.path = "/"
                       /\ connections[i].request.method = "HEAD"

RegisteredPaths == {routes[k].path : k \in DOMAIN routes}

C6_FixedHostPort ==
    /\ listener # NoListener => (listener.host = "0.0.0.0" /\ listener.port = 8000)
    /\ phase = "serving" => (listener # NoListener /\ is_main)

\* C6 witness: serving, with host and port given both in the environment and
\* on the command line.
C6_Witness ==
    /\ phase = "serving"
    /\ environ # {}
    /\ argv # <<>>
    /\ \E i \in DOMAIN connections : Responded(i)

\* C7: after a failed bind the process has exited with a non-zero status, the
\* bind was tried once, nothing is listening and no request was ever accepted.
C7_BindFailureExits ==
    bind_failed =>
        /\ phase = "exited"
        /\ exit_code # 0
        /\ bind_attempts = 1
        /\ listener = NoListener
        /\ connections = <<>>

\* C7 witness: the bind failed.
C7_Witness == bind_failed /\ phase = "exited" /\ exit_code = 1

AppState == <<routes, openapi_schema>>

RequestStep == phase = "serving" /\ connections' # connections

\* C8 as stated: no step of request handling changes the application state.
C8_NoRequestChangesApp ==
    [][RequestStep => AppState' = AppState]_vars

\* C8 amended: no step of request handling changes the route table, and the
\* only application state a request changes is the schema cache, written
\* when the framework's /openapi.json endpoint answers; accepting, queueing,
\* calling and returning from read_root and the 404/405 answers change none.
C8_OnlySchemaCacheChanges ==
    [][RequestStep =>
         /\ routes' = routes
         /\ openapi_schema' # openapi_schema =>
              \E i \in DOMAIN connections :
                  /\ connections[i].state = "accepted"
                  /\ connections'[i].state = "responded"
                  /\ connections'[i].endpoint = "openapi"]_vars

\* C8 witness: a request that matched the route and one that matched nothing
\* have been answered and the application state is as it was when serving began.
C8_Witness ==
    /\ routes = Append(DefaultRoutes, ReadRootRoute)
    /\ openapi_schema = "None"
    /\ \E i \in DOMAIN connections :
          Responded(i) /\ connections[i].endpoint = "read_root"
    /\ \E i \in DOMAIN connections :
          Responded(i) /\ connections[i].endpoint = "not_found"

PhaseSuccessors ==
    { <<"start", "app_created">>, <<"app_created", "route_registered">>,
      <<"route_registered", "server_init">>, <<"route_registered", "imported">>,
      <<"server_init", "serving">>, <<"server_init", "exited">>,
      <<"serving", "exited">> }

LifecycleInv ==
    /\ phase \in {"server_init", "serving"} => routes = Append(DefaultRoutes, ReadRootRoute)
    /\ phase = "serving" <=> (listener # NoListener)
    /\ connections # <<>> => (bind_attempts = 1 /\ ~bind_failed /\ phase \in {"serving", "exited"})
    /\ \A i \in DOMAIN connections :
          /\ InFlight(i) => (phase = "serving" /\ listener # NoListener)
          /\ ReadRootCalled(i) => IsGetRoot(connections[i].request)
          /\ connections[i].state \in {"waiting", "running"} => connections[i].endpoint = "read_root"

\* C9: the phases follow process start, application set-up, server
\* initialization, listener bound and serving, in that order; requests are
\* accepted and answered only while the listener is bound, and read_root is
\* called only for an accepted request that matched GET "/".
C9_Lifecycle ==
    /\ []LifecycleInv
    /\ [][phase' # phase => <<phase, phase'>> \in PhaseSuccessors]_vars
    /\ [][connections' # connections => (phase = "serving" /\ phase' = "serving")]_vars

\* C9 witness: read_root has answered a request while the server is serving.
C9_Witness ==
    /\ phase = "serving"
    /\ \E i \in DOMAIN connections :
          Responded(i) /\ connections[i].endpoint = "read_root"

\* C10: under fair scheduling of the request tasks, every accepted GET "/" is
\* eventually answered 204, however many requests are in flight.
C10_GetRootEventuallyAnswered ==
    \A i \in Ids :
        (i \in DOMAIN connections /\ IsGetRoot(connections[i].request))
            ~> (Responded(i) /\ connections[i].response.status_code = 204)

\* C10 witness: a GET "/" waits for a worker thread while read_root runs for
\* another request.
C10_Witness ==
    \E i, j \in DOMAIN connections :
        /\ connections[i].state = "running"
        /\ connections[j].state = "waiting"
        /\ BusyThreads = ThreadLimit

====
